---- MODULE Spec2Model ----
(***************************************************************************)
(* Yaral: rate limiting plugin for hapi.  The model follows one request    *)
(* through the two extension points the plugin registers                   *)
(* (server.ext(options.event) and server.ext('onPreResponse')), with the   *)
(* limitus calls, their deadline timers and the user callbacks as the      *)
(* environment.  The limiter is external: each of its calls may complete   *)
(* with success, Limitus.Rejected or another error, at any time, or never. *)
(* A limiter call that calls back again is followed where the function     *)
(* createTimeout builds stands between the limiter and the continuation.   *)
(***************************************************************************)
EXTENDS Integers, Sequences, FiniteSets, TLC

(* ----------------------------- bounds --------------------------------- *)
\* how many times in a run a limiter call may call back again after its first callback
MaxDup == 1
\* longest resolved bucket list (route buckets followed by options.default)
MaxBuckets == 2
\* requests of one identity that share a limiter counter
MaxRequests == 4
\* windows of the interval the clock goes through
MaxWindows == 2
\* largest count a limiter result reports to Bucket.headers
MaxCount == 6

(* --------------------------- configuration ---------------------------- *)
\* the buckets option: the rules 'a', 'b', 'c' and 'd' the tests register ('a' and
\* 'd' name no codes and get the default ['2xx', '3xx']; a rule that names no mode
\* gets 'interval')
buckets ==
  [ a |-> [name |-> "a", max |-> 2, mode |-> "interval",
           codes |-> << <<"2","x","x">>, <<"3","x","x">> >>, id |-> "l"],
    b |-> [name |-> "b", max |-> 5, mode |-> "interval",
           codes |-> << <<"4","x","x">> >>, id |-> "ip"],
    c |-> [name |-> "c", max |-> 2, mode |-> "interval",
           codes |-> << <<"x","x","x">> >>, id |-> "l"],
    d |-> [name |-> "d", max |-> 2, mode |-> "continuous",
           codes |-> << <<"2","x","x">>, <<"3","x","x">> >>, id |-> "l"] ]

\* the rules the routes name
BucketNames == {"a", "b", "c"}

\* the place of each rule in the buckets option
Rank == [a |-> 1, b |-> 2, c |-> 3]

\* bucket lists of length at most n that name the rules in the order of the buckets
\* option or in the reverse of it
ListsUpTo(n) ==
  { bl \in UNION { [1..k -> BucketNames] : k \in 0..n } :
      \/ \A i \in 1..(Len(bl) - 1) : Rank[bl[i]] < Rank[bl[i + 1]]
      \/ \A i \in 1..(Len(bl) - 1) : Rank[bl[i]] > Rank[bl[i + 1]] }

\* the requests: the fields the id and exclude functions read
Requests ==
  [l : {"u1"}, ip : {"10.0.0.1"}, excludeGlobal : BOOLEAN, excludeRoute : BOOLEAN]

\* req.route.settings.plugins.yaral: absent ("none"), a name ("string": buckets holds
\* the name), a list of names ("array"), or an object that sets the keys in `keys`
\* (its exclude, when set, is req => req.query.excludeRoute === 'true').  The shape
\* "objectName" is the object whose buckets is one name, a string: the names are
\* single characters, so the string is kept as the sequence of its characters and
\* the resolved options say in `text` that their buckets is a string and not a list
RouteKeys == {"buckets", "enabled", "exclude"}

RouteConfigs ==
  { [shape |-> "none", keys |-> {}, buckets |-> <<>>, enabled |-> TRUE] }
    \cup { [shape |-> "string", keys |-> {}, buckets |-> <<n>>, enabled |-> TRUE] :
             n \in BucketNames }
    \cup { [shape |-> "array", keys |-> {}, buckets |-> bl, enabled |-> TRUE] :
             bl \in ListsUpTo(MaxBuckets) }
    \cup { c \in [shape : {"object"}, keys : SUBSET RouteKeys,
                   buckets : {<<>>, <<"a">>}, enabled : BOOLEAN] :
             /\ "buckets" \in c.keys <=> c.buckets # <<>>
             /\ "enabled" \in c.keys <=> c.enabled = FALSE }

\* options.default
Defaults == { <<>>, <<"a">> }

\* the route settings and defaults: a default list is combined with the routes that
\* name no list of their own, one bucket by its name, or an object
Configs ==
  { c \in [route : RouteConfigs, default : Defaults] :
      c.default = <<>> \/ c.route.shape \in {"none", "string", "object"} }

\* the response statuses a handler produces
Statuses == {200, 404, 500}

\* what a limiter call completes with
Outcomes == {"ok", "rejected", "error"}

\* the data of a limiter result: the count it reports and the id of its window
LimiterData == { [count |-> 1, bucket |-> 1], [count |-> 3, bucket |-> 2] }
NoData == [count |-> 0, bucket |-> 0]

\* what onLimit returns
OnLimitReturns == {"cancel", "undefined"}

NoInfo == [buckets |-> <<>>, ids |-> <<>>, limited |-> FALSE, attached |-> FALSE]
Undefined == [bucket |-> "undefined", id |-> "undefined"]
NoHeaders == [k \in {} |-> 0]
NoResponse == [status |-> 0, headers |-> NoHeaders]
\* no Bucket method has been called on its own
NoCall == [op |-> "none", status |-> 0, pattern |-> <<>>, name |-> "none",
           data |-> NoData, done |-> FALSE, hit |-> FALSE, hdrs |-> NoHeaders]

(* --------------------- the storage behind the limiter ------------------- *)
\* the keys the limiter hands to get and set: strings, and a number, which String()
\* turns into the string of its digits
Keys == { [kind |-> "string", s |-> "1"], [kind |-> "string", s |-> "a:u1"],
          [kind |-> "number", n |-> 1] }
\* String(key)
String(key) ==
  IF key.kind = "number"
  THEN <<"0", "1", "2", "3", "4", "5", "6", "7", "8", "9">>[key.n + 1]
  ELSE key.s
\* the values the limiter stores
AdapterValues == {1, 2}
\* the keys of the storage: a segment and an id; the segment "other" holds cached
\* data that is not the limiter's
CacheKeys == [segment : {"yaral", "other"}, id : {"1", "a:u1"}]
\* what the storage answers for a key it holds nothing under
Null == [present |-> FALSE, item |-> 0]
\* what it answers for a key it holds the value v under: an envelope carrying v
Envelope(v) == [present |-> TRUE, item |-> v]
NoCache == [k \in CacheKeys |-> Null]
NoneWritten == [key \in Keys |-> Null]
NoAdapterCall == [op |-> "none", key |-> [kind |-> "string", s |-> "1"],
                  cacheKey |-> [segment |-> "none", id |-> "none"],
                  failed |-> FALSE, err |-> "none", value |-> Null, last |-> Null]

VARIABLES
  optEnabled,     \* options.enabled
  req,            \* the request
  routeOpts,      \* its route's plugins.yaral setting
  optDefault,     \* options.default
  includeHeaders, \* options.includeHeaders
  timeoutEnabled, \* options.timeout.enabled
  idThrows,       \* whether the id function of the buckets throws for the request
  pc,             \* where the request is in its lifecycle
  info,           \* req.plugins.yaral
  todo,           \* the counter of all()
  chk,            \* per check: its deadline timer and what its wrapper has seen
  drp,            \* the same for the drop call
  answer,         \* the first reply made through the pre-handler reply interface
  replies,        \* the number of replies made through that interface
  replies2,       \* the number of reply.continue() calls made in onPreResponse
  response,       \* req.response: status and headers
  handled,        \* the status the route's handler answered with (0: it has not run)
  aggCalls,       \* how often the aggregate callback given to all() has run
  onPassCalls,    \* how often options.onPass has run
  onLimitCalls,   \* how often options.onLimit has run
  onLimitArgs,    \* the arguments options.onLimit was called with
  logCalls,       \* how often server.log(['error', 'ratelimit']) has run
  dropCalls,      \* the arguments of each limitus.drop call
  checkCalls,     \* the arguments of each limitus.checkLimited call
  firstErr,       \* the error the aggregate callback ran with first ("ok": none)
  firstRet,       \* what onLimit returned in that run, when it was called
  cancelled,      \* whether options.onLimit has returned cancel
  dup,            \* repeated limiter callbacks so far
  qCount,         \* the limiter's counter of the identity for the current window
  qWindow,        \* the id of the current window of the interval
  qReq,           \* per request sharing the counter: its position, state and response
  qServed,        \* the responses sent, in order: status, remaining header, window
  qOverlap,       \* whether two of these requests have been in flight together
  pureCall,       \* the last call of a Bucket method on its own, with its result
  cache,          \* cache._cache: what the storage holds under each of its keys
  written,        \* per limiter key: the value last set under it and still stored
  adapterCall     \* the last call of the adapter's get or set, with its callback and
                  \* with the value last set under its key and still stored then

vars == <<optEnabled, req, routeOpts, optDefault, includeHeaders, timeoutEnabled, idThrows, pc,
          info, todo,
          chk, drp, answer, replies, replies2, response, handled, aggCalls, onPassCalls,
          onLimitCalls, onLimitArgs, logCalls, dropCalls, checkCalls, firstErr,
          firstRet, cancelled, dup, qCount, qWindow, qReq, qServed, qOverlap, pureCall,
          cache, written, adapterCall>>

\* the storage behind the limiter and the adapter's calls on it
adapter == <<cache, written, adapterCall>>

\* the limiter's counter and the requests that share it
quota == <<qCount, qWindow, qReq, qServed, qOverlap>>

\* the single request followed through its callbacks
single == <<optEnabled, req, routeOpts, optDefault, includeHeaders, timeoutEnabled, idThrows, pc,
          info, todo,
            chk, drp, answer, replies, replies2, response, handled, aggCalls, onPassCalls,
            onLimitCalls, onLimitArgs, logCalls, dropCalls, checkCalls, firstErr,
            firstRet, cancelled, dup>>

config == <<optEnabled, req, routeOpts, optDefault, includeHeaders, timeoutEnabled, idThrows>>

\* what phase 1 writes besides the counter of all() and the call records
phase1 == <<aggCalls, onPassCalls, onLimitCalls, onLimitArgs, logCalls, info, answer,
            replies, pc, response, firstErr, firstRet, cancelled>>

(* ------------------------------ Bucket -------------------------------- *)
\* String(status): the decimal digits of a three-digit status
DigitChar == [d \in 0..9 |-> CASE d = 0 -> "0" [] d = 1 -> "1" [] d = 2 -> "2"
                                [] d = 3 -> "3" [] d = 4 -> "4" [] d = 5 -> "5"
                                [] d = 6 -> "6" [] d = 7 -> "7" [] d = 8 -> "8"
                                [] OTHER -> "9"]

StringOfStatus(status) ==
  << DigitChar[(status \div 100) % 10], DigitChar[(status \div 10) % 10],
     DigitChar[status % 10] >>

\* codeMatches looking at the first position only
codeMatches_firstPosition(pattern, code) ==
  ~(pattern[1] # "x" /\ code[1] # pattern[1])

codeMatches(pattern, code) ==
  \A k \in 1..3 : ~(pattern[k] # "x" /\ code[k] # pattern[k])

\* Bucket.matches taking every status for one of the bucket's codes
matches_anyStatus(name, status) == TRUE

\* Bucket.matches
matches(name, status) ==
  LET target == StringOfStatus(status)
      codes == buckets[name].codes
  IN \E i \in 1..Len(codes) : codeMatches(codes[i], target)

\* Bucket.identify applying one id function for every bucket
identify_byIp(name, r) == r.ip

\* Bucket.identify giving every request the same identity
identify_fixed(name, r) == "u1"

\* Bucket.identify: the bucket's id function applied to the request
identify(name, r) ==
  IF buckets[name].id = "l" THEN r.l ELSE r.ip

Max(x, y) == IF x >= y THEN x ELSE y

\* Bucket.headers counting the remaining requests one short
headers_oneShort(name, data) ==
  LET h == "X-Rate-Limit" :> buckets[name].max
  IN IF buckets[name].mode = "interval"
       THEN ("X-RateLimit-Remaining" :> Max(buckets[name].max - data.count - 1, 0))
              @@ ("X-RateLimit-Reset" :> data.bucket) @@ h
       ELSE h

\* Bucket.headers without the floor of the remaining requests at 0
headers_unfloored(name, data) ==
  LET h == "X-Rate-Limit" :> buckets[name].max
  IN IF buckets[name].mode = "interval"
       THEN ("X-RateLimit-Remaining" :> (buckets[name].max - data.count))
              @@ ("X-RateLimit-Reset" :> data.bucket) @@ h
       ELSE h

\* Bucket.headers
headers(name, data) ==
  LET h == "X-Rate-Limit" :> buckets[name].max
  IN IF buckets[name].mode = "interval"
       THEN ("X-RateLimit-Remaining" :> Max(buckets[name].max - data.count, 0))
              @@ ("X-RateLimit-Reset" :> data.bucket) @@ h
       ELSE h

(* ------------------------------ plugin -------------------------------- *)
\* the exclude functions of the tests, applied to a request
ApplyExclude(fn, r) ==
  CASE fn = "excludeGlobal" -> r.excludeGlobal
    [] fn = "excludeRoute" -> r.excludeRoute
    [] OTHER -> FALSE

\* options.exclude
optExclude == "excludeGlobal"

\* resolveRouteOpts asking only options.exclude
resolveRouteOpts_globalExcludeOnly(r, ro, dflt) ==
  LET opts0 == [enabled |-> TRUE, buckets |-> <<>>, exclude |-> "never", text |-> FALSE]
      opts1 ==
        CASE ro.shape = "none" -> opts0
          [] ro.shape = "string" -> [opts0 EXCEPT !.buckets = ro.buckets]
          [] ro.shape = "array" -> [opts0 EXCEPT !.buckets = ro.buckets]
          [] OTHER ->
               [enabled |-> IF "enabled" \in ro.keys THEN ro.enabled ELSE opts0.enabled,
                buckets |-> IF "buckets" \in ro.keys THEN ro.buckets ELSE opts0.buckets,
                exclude |-> IF "exclude" \in ro.keys THEN "excludeRoute" ELSE opts0.exclude,
                text |-> ro.shape = "objectName" /\ "buckets" \in ro.keys]
      bl == opts1.buckets \o dflt
  IN IF opts1.enabled
       THEN [enabled |-> ~ApplyExclude(optExclude, r)
                           /\ Len(bl) + Len(dflt) > 0,
             buckets |-> bl,
             exclude |-> opts1.exclude,
             text |-> opts1.text]
       ELSE opts1

\* resolveRouteOpts putting options.default in front of the route's buckets
resolveRouteOpts_defaultFirst(r, ro, dflt) ==
  LET opts0 == [enabled |-> TRUE, buckets |-> <<>>, exclude |-> "never", text |-> FALSE]
      opts1 ==
        CASE ro.shape = "none" -> opts0
          [] ro.shape = "string" -> [opts0 EXCEPT !.buckets = ro.buckets]
          [] ro.shape = "array" -> [opts0 EXCEPT !.buckets = ro.buckets]
          [] OTHER ->
               [enabled |-> IF "enabled" \in ro.keys THEN ro.enabled ELSE opts0.enabled,
                buckets |-> IF "buckets" \in ro.keys THEN ro.buckets ELSE opts0.buckets,
                exclude |-> IF "exclude" \in ro.keys THEN "excludeRoute" ELSE opts0.exclude,
                text |-> ro.shape = "objectName" /\ "buckets" \in ro.keys]
      bl == dflt \o opts1.buckets
  IN IF opts1.enabled
       THEN [enabled |-> ~(ApplyExclude(optExclude, r) \/ ApplyExclude(opts1.exclude, r))
                           /\ Len(bl) + Len(dflt) > 0,
             buckets |-> bl,
             exclude |-> opts1.exclude,
             text |-> opts1.text]
       ELSE opts1

\* resolveRouteOpts without its `if (opts.enabled)` test
resolveRouteOpts_routeEnabledIgnored(r, ro, dflt) ==
  LET opts0 == [enabled |-> TRUE, buckets |-> <<>>, exclude |-> "never", text |-> FALSE]
      opts1 ==
        CASE ro.shape = "none" -> opts0
          [] ro.shape = "string" -> [opts0 EXCEPT !.buckets = ro.buckets]
          [] ro.shape = "array" -> [opts0 EXCEPT !.buckets = ro.buckets]
          [] OTHER ->
               [enabled |-> IF "enabled" \in ro.keys THEN ro.enabled ELSE opts0.enabled,
                buckets |-> IF "buckets" \in ro.keys THEN ro.buckets ELSE opts0.buckets,
                exclude |-> IF "exclude" \in ro.keys THEN "excludeRoute" ELSE opts0.exclude,
                text |-> ro.shape = "objectName" /\ "buckets" \in ro.keys]
      bl == opts1.buckets \o dflt
  IN IF TRUE
       THEN [enabled |-> ~(ApplyExclude(optExclude, r) \/ ApplyExclude(opts1.exclude, r))
                           /\ Len(bl) + Len(dflt) > 0,
             buckets |-> bl,
             exclude |-> opts1.exclude,
             text |-> opts1.text]
       ELSE opts1

resolveRouteOpts(r, ro, dflt) ==
  LET opts0 == [enabled |-> TRUE, buckets |-> <<>>, exclude |-> "never", text |-> FALSE]
      opts1 ==
        CASE ro.shape = "none" -> opts0
          [] ro.shape = "string" -> [opts0 EXCEPT !.buckets = ro.buckets]
          [] ro.shape = "array" -> [opts0 EXCEPT !.buckets = ro.buckets]
          [] OTHER ->
               [enabled |-> IF "enabled" \in ro.keys THEN ro.enabled ELSE opts0.enabled,
                buckets |-> IF "buckets" \in ro.keys THEN ro.buckets ELSE opts0.buckets,
                exclude |-> IF "exclude" \in ro.keys THEN "excludeRoute" ELSE opts0.exclude,
                text |-> ro.shape = "objectName" /\ "buckets" \in ro.keys]
      bl == opts1.buckets \o dflt
  IN IF opts1.enabled
       THEN [enabled |-> ~(ApplyExclude(optExclude, r) \/ ApplyExclude(opts1.exclude, r))
                           /\ Len(bl) + Len(dflt) > 0,
             buckets |-> bl,
             exclude |-> opts1.exclude,
             text |-> opts1.text]
       ELSE opts1

\* the indexes of the buckets of the list that match the status
MatchingIndexes(bl, status) == { i \in 1..Len(bl) : matches(bl[i], status) }

SetMin(S) == CHOOSE x \in S : \A y \in S : x <= y
SetMax(S) == CHOOSE x \in S : \A y \in S : x >= y

\* matchBucket returning the last match of the list instead of the first
matchBucket_lastMatch(inf, status) ==
  LET m == MatchingIndexes(inf.buckets, status)
  IN IF m = {} THEN Undefined
     ELSE [bucket |-> inf.buckets[SetMax(m)], id |-> inf.ids[SetMax(m)]]

\* matchBucket asking the id function again for the request as it is at response time
matchBucket_identifiesAgain(inf, status) ==
  LET m == MatchingIndexes(inf.buckets, status)
  IN IF m = {} THEN Undefined
     ELSE [bucket |-> inf.buckets[SetMin(m)], id |-> identify(inf.buckets[SetMin(m)], req)]

matchBucket(inf, status) ==
  LET m == MatchingIndexes(inf.buckets, status)
  IN IF m = {} THEN Undefined
     ELSE [bucket |-> inf.buckets[SetMin(m)], id |-> inf.ids[SetMin(m)]]

\* addHeaders without its options.includeHeaders test
addHeaders_always(resHeaders, h, include) == h @@ resHeaders

\* Object.assign(res.headers, h) when options.includeHeaders
addHeaders(resHeaders, h, include) ==
  IF include THEN h @@ resHeaders ELSE resHeaders

\* the default options.timeout.ontimeout: reply.continue()
ontimeout == "continue"

\* handleError answering a timeout with the rejection instead of options.timeout.ontimeout
handleError_timeoutRejects(err) ==
  IF err = "timeout"
    THEN [log |-> 0, reply |-> "reject"]
    ELSE [log |-> IF err # "rejected" THEN 1 ELSE 0, reply |-> "continue"]

\* handleError without the server.log call
handleError_noLog(err) ==
  IF err = "timeout"
    THEN [log |-> 0, reply |-> ontimeout]
    ELSE [log |-> 0, reply |-> "continue"]

\* handleError halting the request on an error of the limiter that is no rejection
handleError_errorRejects(err) ==
  IF err = "timeout"
    THEN [log |-> 0, reply |-> ontimeout]
    ELSE IF err # "rejected"
           THEN [log |-> 1, reply |-> "reject"]
           ELSE [log |-> 0, reply |-> "continue"]

\* handleError logging a rejection like any other error
handleError_logsRejection(err) ==
  IF err = "timeout"
    THEN [log |-> 0, reply |-> ontimeout]
    ELSE [log |-> 1, reply |-> "continue"]

\* handleError logging a timeout before it calls options.timeout.ontimeout
handleError_logsTimeout(err) ==
  IF err = "timeout"
    THEN [log |-> 1, reply |-> ontimeout]
    ELSE [log |-> IF err # "rejected" THEN 1 ELSE 0, reply |-> "continue"]

\* handleError: what it logs and how it replies
handleError(err) ==
  IF err = "timeout"
    THEN [log |-> 0, reply |-> ontimeout]
    ELSE [log |-> IF err # "rejected" THEN 1 ELSE 0, reply |-> "continue"]

\* rateLimitResolve answering a vetoed rejection like a rejection that was not vetoed
rateLimitResolve_vetoIgnored(err, data, name, ret) ==
  LET quiet == [onPass |-> 0, onLimit |-> {}, log |-> 0, limited |-> FALSE,
                reply |-> "continue", headers |-> NoHeaders]
  IN CASE err = "ok" -> [quiet EXCEPT !.onPass = 1]
       [] err \notin {"ok", "rejected"} ->
            [quiet EXCEPT !.log = handleError(err).log, !.reply = handleError(err).reply]
       [] OTHER ->
            [quiet EXCEPT !.onLimit = {[name |-> name, data |-> data]},
                          !.limited = TRUE, !.reply = "reject",
                          !.headers = ("X-RateLimit-Remaining" :> 0)
                                        @@ ("X-RateLimit-Reset" :> data.bucket)]

\* rateLimitResolve answering every failed check with the rejection
rateLimitResolve_anyFailureRejects(err, data, name, ret) ==
  LET quiet == [onPass |-> 0, onLimit |-> {}, log |-> 0, limited |-> FALSE,
                reply |-> "continue", headers |-> NoHeaders]
  IN CASE err = "ok" -> [quiet EXCEPT !.onPass = 1]
       [] err \notin {"ok", "rejected"} ->
            [quiet EXCEPT !.log = handleError(err).log, !.limited = TRUE,
                          !.reply = "reject"]
       [] OTHER ->
            LET called == [quiet EXCEPT !.onLimit = {[name |-> name, data |-> data]}]
            IN IF ret = "cancel"
                 THEN called
                 ELSE [called EXCEPT !.limited = TRUE, !.reply = "reject",
                         !.headers = ("X-RateLimit-Remaining" :> 0)
                                       @@ ("X-RateLimit-Reset" :> data.bucket)]

\* rateLimitResolve: the aggregate callback of phase 1, as the effects it has.
\* err is "ok" when all() reports no error; ret is what onLimit returns.
rateLimitResolve(err, data, name, ret) ==
  LET quiet == [onPass |-> 0, onLimit |-> {}, log |-> 0, limited |-> FALSE,
                reply |-> "continue", headers |-> NoHeaders]
  IN CASE err = "ok" -> [quiet EXCEPT !.onPass = 1]
       [] err \notin {"ok", "rejected"} ->
            [quiet EXCEPT !.log = handleError(err).log, !.reply = handleError(err).reply]
       [] OTHER ->
            LET called == [quiet EXCEPT !.onLimit = {[name |-> name, data |-> data]}]
            IN IF ret = "cancel"
                 THEN called
                 ELSE [called EXCEPT !.limited = TRUE, !.reply = "reject",
                         !.headers = ("X-RateLimit-Remaining" :> 0)
                                       @@ ("X-RateLimit-Reset" :> data.bucket)]

\* the cb of all() resolving on the first success, like a first-to-resolve primitive
allCb_firstSuccess(t, err) ==
  IF err # "ok"
    THEN [todo |-> -1, call |-> TRUE]
    ELSE [todo |-> t - 1, call |-> t > 0]

\* the cb of all() counting a failed check like a passed one, so that the aggregate
\* callback runs with the completion that comes last
allCb_lastCompletion(t, err) ==
  [todo |-> t - 1, call |-> t - 1 = 0]

\* the cb of all(): the new counter and whether the aggregate callback runs
allCb(t, err) ==
  IF err # "ok"
    THEN [todo |-> -1, call |-> TRUE]
    ELSE [todo |-> t - 1, call |-> t - 1 = 0]

\* createTimeout returning the callback itself whatever options.timeout.enabled is
createTimeout_noTimer(enabled) == "off"

\* createTimeout setting its timer whatever options.timeout.enabled is
createTimeout_alwaysTimer(enabled) == "armed"

\* createTimeout: the timer a call starts with
createTimeout(enabled) == IF enabled THEN "armed" ELSE "off"

\* the returned function without its `timeout !== null` test
wrapperPasses_always(timer) == TRUE

\* the returned function passing a completion on also after its timer has fired
wrapperPasses_afterTimer(timer) == timer \in {"armed", "null", "off"}

\* the function createTimeout returns: whether it passes a completion on
\* ("off": the callback itself was returned)
wrapperPasses(timer) == timer # "null"

\* the timer after the returned function ran
wrapperTimer(timer) == IF timer = "off" THEN "off" ELSE "null"

NewCall(enabled) ==
  [timer |-> createTimeout(enabled), called |-> FALSE, cont |-> 0,
   first |-> "none", res |-> "none", got |-> "none"]

\* a call record after the limiter called back with kind
AfterCallback(c, kind) ==
  [timer |-> wrapperTimer(c.timer),
   called |-> TRUE,
   cont |-> IF wrapperPasses(c.timer) THEN c.cont + 1 ELSE c.cont,
   first |-> IF c.first = "none" THEN "limiter" ELSE c.first,
   res |-> IF c.first = "none" THEN kind ELSE c.res,
   got |-> IF wrapperPasses(c.timer) /\ c.cont = 0 THEN kind ELSE c.got]

\* a call record after its deadline timer fired
AfterTimer(c) ==
  [c EXCEPT !.timer = "null", !.cont = @ + 1,
            !.first = IF @ = "none" THEN "timer" ELSE @,
            !.got = IF c.cont = 0 THEN "timeout" ELSE @]

\* onPreResponse without the `req.plugins.yaral.limited` test
settlementTargets_noLimitedGuard(inf, status) ==
  LET opts == IF inf.attached THEN matchBucket(inf, status) ELSE Undefined
  IN IF opts = Undefined THEN <<>> ELSE << opts >>

\* onPreResponse dropping every bucket that matches instead of the first
settlementTargets_allMatching(inf, status) ==
  LET m == IF inf.attached THEN MatchingIndexes(inf.buckets, status) ELSE {}
      nth[k \in 0..Len(inf.buckets)] ==
        IF k = 0 THEN <<>>
        ELSE IF k \in m
               THEN Append(nth[k - 1], [bucket |-> inf.buckets[k], id |-> inf.ids[k]])
               ELSE nth[k - 1]
  IN IF inf.limited THEN <<>> ELSE nth[Len(inf.buckets)]

\* the drop calls onPreResponse issues for a response
settlementTargets(inf, status) ==
  LET opts == IF inf.attached THEN matchBucket(inf, status) ELSE Undefined
  IN IF opts = Undefined \/ inf.limited THEN <<>> ELSE << opts >>

\* preResponseResolve replacing the response when the drop failed
preResponseResolve_failureHalts(err, data, opts) ==
  IF err # "ok"
    THEN [log |-> handleError(err).log, headers |-> NoHeaders,
          reply |-> IF err = "rejected" THEN "continue" ELSE "reject"]
    ELSE [log |-> 0, headers |-> headers(opts.bucket, data), reply |-> "continue"]

\* preResponseResolve: the callback of the drop, as the effects it has
preResponseResolve(err, data, opts) ==
  IF err # "ok"
    THEN [log |-> handleError(err).log, headers |-> NoHeaders,
          reply |-> handleError(err).reply]
    ELSE [log |-> 0, headers |-> headers(opts.bucket, data), reply |-> "continue"]

\* register with every option taken as enabled
registers_always(enabled) == TRUE

\* register: whether it goes on to add the extension points (`if (!options.enabled)
\* return next()`)
registers(enabled) == enabled

(* ------------------------------ actions ------------------------------- *)
Init ==
  /\ optEnabled \in BOOLEAN
  /\ req \in Requests
  /\ \E c \in Configs : routeOpts = c.route /\ optDefault = c.default
  /\ includeHeaders \in BOOLEAN
  /\ timeoutEnabled \in BOOLEAN
  /\ idThrows = FALSE
  /\ pc = "start"
  /\ info = NoInfo
  /\ todo = 0
  /\ chk = <<>>
  /\ drp = <<>>
  /\ answer = "none"
  /\ replies = 0
  /\ replies2 = 0
  /\ response = NoResponse
  /\ handled = 0
  /\ aggCalls = 0
  /\ onPassCalls = 0
  /\ onLimitCalls = 0
  /\ onLimitArgs = {}
  /\ logCalls = 0
  /\ dropCalls = <<>>
  /\ checkCalls = <<>>
  /\ firstErr = "none"
  /\ firstRet = "none"
  /\ cancelled = FALSE
  /\ dup = 0
  /\ qCount = 0
  /\ qWindow = 1
  /\ qReq = <<>>
  /\ qServed = <<>>
  /\ qOverlap = FALSE
  /\ pureCall = NoCall /\ cache = NoCache /\ written = NoneWritten /\ adapterCall = NoAdapterCall

\* server.ext(options.event, ...): resolves the route, attaches the state and
\* issues one checkLimited per bucket through all()
ExtEvent ==
  /\ registers(optEnabled)
  /\ pc = "start"
  /\ LET opts == resolveRouteOpts(req, routeOpts, optDefault)
         n == Len(opts.buckets)
     IN IF opts.enabled = FALSE
          THEN /\ answer' = "continue"
               /\ replies' = 1
               /\ pc' = "handle"
               /\ UNCHANGED <<info, todo, chk, checkCalls, response>>
          ELSE IF (idThrows /\ n > 0) \/ opts.text
          THEN \* opts.buckets.map(b => buckets[b].identify(req)) throws (the id
               \* function does, or opts.buckets is a string and has no map) before
               \* the state is attached and before any reply: the exception leaves the
               \* extension handler and the framework answers the request itself
               /\ answer' = "throw"
               /\ response' = [status |-> 500, headers |-> NoHeaders]
               /\ pc' = "respond"
               /\ UNCHANGED <<info, todo, chk, checkCalls, replies>>
          ELSE /\ info' = [buckets |-> opts.buckets,
                           ids |-> [i \in 1..n |-> identify(opts.buckets[i], req)],
                           limited |-> FALSE, attached |-> TRUE]
               /\ todo' = n
               /\ chk' = [i \in 1..n |-> NewCall(timeoutEnabled)]
               /\ checkCalls' = [i \in 1..n |->
                                   [name |-> opts.buckets[i],
                                    id |-> identify(opts.buckets[i], req)]]
               /\ pc' = "wait1"
               /\ UNCHANGED <<answer, replies, response>>
  /\ UNCHANGED <<adapter, pureCall, quota, config, handled, drp, replies2, aggCalls, onPassCalls, onLimitCalls,
                 onLimitArgs, logCalls, dropCalls, firstErr, firstRet, cancelled, dup>>

\* Phase1Completion with rateLimitResolve writing info.limited in every run
Phase1Completion_limitedRewritten(err, data, name, ret) ==
  LET a == allCb(todo, err)
      e == rateLimitResolve(err, data, name, ret)
  IN /\ todo' = a.todo
     /\ IF a.call
          THEN /\ aggCalls' = aggCalls + 1
               /\ onPassCalls' = onPassCalls + e.onPass
               /\ onLimitCalls' = onLimitCalls + Cardinality(e.onLimit)
               /\ onLimitArgs' = onLimitArgs \cup e.onLimit
               /\ logCalls' = logCalls + e.log
               /\ info' = [info EXCEPT !.limited = e.limited]
               /\ replies' = replies + 1
               /\ firstErr' = IF aggCalls = 0 THEN err ELSE firstErr
               /\ firstRet' = IF aggCalls = 0 /\ e.onLimit # {} THEN ret ELSE firstRet
               /\ cancelled' = (cancelled \/ (e.onLimit # {} /\ ret = "cancel"))
               /\ IF replies = 0
                    THEN /\ answer' = e.reply
                         /\ IF e.reply = "continue"
                              THEN pc' = "handle" /\ UNCHANGED response
                              ELSE /\ pc' = "respond"
                                   /\ response' =
                                        [status |-> 429,
                                         headers |-> addHeaders(NoHeaders, e.headers,
                                                                includeHeaders)]
                    ELSE UNCHANGED <<answer, pc, response>>
          ELSE UNCHANGED phase1

\* a completion of a check reaches the cb of all(): the counter moves and, when the
\* aggregate callback runs, rateLimitResolve acts.  The framework acts on the first
\* reply made through a reply interface.
Phase1Completion(err, data, name, ret) ==
  LET a == allCb(todo, err)
      e == rateLimitResolve(err, data, name, ret)
  IN /\ todo' = a.todo
     /\ IF a.call
          THEN /\ aggCalls' = aggCalls + 1
               /\ onPassCalls' = onPassCalls + e.onPass
               /\ onLimitCalls' = onLimitCalls + Cardinality(e.onLimit)
               /\ onLimitArgs' = onLimitArgs \cup e.onLimit
               /\ logCalls' = logCalls + e.log
               /\ info' = [info EXCEPT !.limited = @ \/ e.limited]
               /\ replies' = replies + 1
               /\ firstErr' = IF aggCalls = 0 THEN err ELSE firstErr
               /\ firstRet' = IF aggCalls = 0 /\ e.onLimit # {} THEN ret ELSE firstRet
               /\ cancelled' = (cancelled \/ (e.onLimit # {} /\ ret = "cancel"))
               /\ IF replies = 0
                    THEN /\ answer' = e.reply
                         /\ IF e.reply = "continue"
                              THEN pc' = "handle" /\ UNCHANGED response
                              ELSE /\ pc' = "respond"
                                   /\ response' =
                                        [status |-> 429,
                                         headers |-> addHeaders(NoHeaders, e.headers,
                                                                includeHeaders)]
                    ELSE UNCHANGED <<answer, pc, response>>
          ELSE UNCHANGED phase1

\* limitus calls back the function createTimeout returned for check i
CheckCallback(i, kind, data, ret) ==
  /\ info.attached
  /\ i \in DOMAIN chk
  /\ ~chk[i].called \/ (timeoutEnabled /\ dup < MaxDup)
  /\ dup' = IF chk[i].called THEN dup + 1 ELSE dup
  /\ chk' = [chk EXCEPT ![i] = AfterCallback(@, kind)]
  /\ IF wrapperPasses(chk[i].timer)
       THEN Phase1Completion(kind, data, info.buckets[i], ret)
       ELSE UNCHANGED <<todo, phase1>>
  /\ UNCHANGED <<adapter, pureCall, quota, config, handled, drp, replies2, dropCalls, checkCalls>>

\* the deadline of check i expires
CheckTimeout(i) ==
  /\ info.attached
  /\ i \in DOMAIN chk
  /\ chk[i].timer = "armed"
  /\ chk' = [chk EXCEPT ![i] = AfterTimer(@)]
  /\ Phase1Completion("timeout", NoData, info.buckets[i], "undefined")
  /\ UNCHANGED <<adapter, pureCall, quota, config, handled, drp, replies2, dropCalls, checkCalls, dup>>

\* the route's handler answers the continued request
Handler(status) ==
  /\ pc = "handle"
  /\ response' = [status |-> status, headers |-> NoHeaders]
  /\ handled' = status
  /\ pc' = "respond"
  /\ UNCHANGED <<adapter, pureCall, quota, config, info, todo, chk, drp, answer, replies, replies2, aggCalls,
                 onPassCalls, onLimitCalls, onLimitArgs, logCalls, dropCalls, checkCalls,
                 firstErr, firstRet, cancelled, dup>>

\* server.ext('onPreResponse', ...)
OnPreResponse ==
  /\ registers(optEnabled)
  /\ pc = "respond"
  /\ LET t == settlementTargets(info, response.status)
     IN /\ dropCalls' = dropCalls \o [j \in 1..Len(t) |->
                                        [name |-> t[j].bucket, id |-> t[j].id]]
        /\ drp' = [j \in 1..Len(t) |-> NewCall(timeoutEnabled)]
        /\ IF t = <<>>
             THEN replies2' = replies2 + 1 /\ pc' = "sent"
             ELSE replies2' = replies2 /\ pc' = "wait2"
  /\ UNCHANGED <<adapter, pureCall, quota, config, handled, info, todo, chk, answer, replies, response, aggCalls,
                 onPassCalls, onLimitCalls, onLimitArgs, logCalls, checkCalls,
                 firstErr, firstRet, cancelled, dup>>

\* a completion of drop j reaches preResponseResolve
Phase2Completion(j, err, data) ==
  LET e == preResponseResolve(err, data, [bucket |-> dropCalls[j].name,
                                          id |-> dropCalls[j].id])
  IN /\ logCalls' = logCalls + e.log
     /\ response' = IF e.reply = "continue"
                       THEN [response EXCEPT
                               !.headers = addHeaders(@, e.headers, includeHeaders)]
                       ELSE [status |-> 429, headers |-> NoHeaders]
     /\ replies2' = replies2 + 1
     /\ pc' = "sent"

\* limitus calls back the function createTimeout returned for drop j
DropCallback(j, kind, data) ==
  /\ j \in DOMAIN drp
  /\ ~drp[j].called \/ (timeoutEnabled /\ dup < MaxDup)
  /\ dup' = IF drp[j].called THEN dup + 1 ELSE dup
  /\ drp' = [drp EXCEPT ![j] = AfterCallback(@, kind)]
  /\ IF wrapperPasses(drp[j].timer)
       THEN Phase2Completion(j, kind, data)
       ELSE UNCHANGED <<logCalls, response, replies2, pc>>
  /\ UNCHANGED <<adapter, pureCall, quota, config, handled, info, todo, chk, answer, replies, aggCalls, onPassCalls,
                 onLimitCalls, onLimitArgs, dropCalls, checkCalls, firstErr, firstRet, cancelled>>

\* the deadline of drop j expires
DropTimeout(j) ==
  /\ j \in DOMAIN drp
  /\ drp[j].timer = "armed"
  /\ drp' = [drp EXCEPT ![j] = AfterTimer(@)]
  /\ Phase2Completion(j, "timeout", NoData)
  /\ UNCHANGED <<adapter, pureCall, quota, config, handled, info, todo, chk, answer, replies, aggCalls, onPassCalls,
                 onLimitCalls, onLimitArgs, dropCalls, checkCalls, firstErr, firstRet, cancelled,
                 dup>>

\* a request to a server whose plugin added no extension point: the handler's
\* response is sent as it is
Unlimited(status) ==
  /\ ~registers(optEnabled)
  /\ pc = "start"
  /\ response' = [status |-> status, headers |-> NoHeaders]
  /\ handled' = status
  /\ pc' = "sent"
  /\ UNCHANGED <<adapter, pureCall, quota, config, info, todo, chk, drp, answer, replies, replies2,
                 aggCalls, onPassCalls, onLimitCalls, onLimitArgs, logCalls, dropCalls,
                 checkCalls, firstErr, firstRet, cancelled, dup>>

\* the data a drop completes with
DropData(kind) == IF kind = "ok" THEN LimiterData ELSE {NoData}

\* the data a check completes with: a rejection carries the exceeded count and the
\* window of the rule
CheckData(kind, name) ==
  IF kind = "rejected"
    THEN { [count |-> buckets[name].max + 1, bucket |-> IF name = "b" THEN 2 ELSE 1] }
    ELSE {NoData}

\* what onLimit may return for a completion of a kind
ReturnsOf(kind) == IF kind = "rejected" THEN OnLimitReturns ELSE {"undefined"}

CheckCallbackStep ==
  \E i \in DOMAIN chk, kind \in Outcomes :
    \E data \in CheckData(kind, info.buckets[i]), ret \in ReturnsOf(kind) :
      CheckCallback(i, kind, data, ret)

CheckTimeoutStep == \E i \in DOMAIN chk : CheckTimeout(i)

HandlerStep == \E status \in Statuses : Handler(status)

DropCallbackStep ==
  \E j \in DOMAIN drp, kind \in Outcomes :
    \E data \in DropData(kind) : DropCallback(j, kind, data)

DropTimeoutStep == \E j \in DOMAIN drp : DropTimeout(j)

UnlimitedStep == \E status \in Statuses : Unlimited(status)

Next ==
  \/ ExtEvent
  \/ CheckCallbackStep
  \/ CheckTimeoutStep
  \/ HandlerStep
  \/ OnPreResponse
  \/ DropCallbackStep
  \/ DropTimeoutStep
  \/ UnlimitedStep

Spec == Init /\ [][Next]_vars

(* ------------------- requests sharing a limiter counter ---------------- *)
\* limitus, interval mode, checkLimited: rejected when one more request would exceed
\* max; the counter is not moved
checkLimited(count, max) ==
  IF count + 1 > max THEN "rejected" ELSE "ok"

\* limitus, interval mode, drop: counts the request unless it would exceed max, and
\* reports the new count and the window
drop(count, max, window) ==
  IF count + 1 > max
    THEN [err |-> "rejected", count |-> count, data |-> NoData]
    ELSE [err |-> "ok", count |-> count + 1,
          data |-> [count |-> count + 1, bucket |-> window]]

\* a request that has not reached the server yet
NewRequest ==
  [pc |-> "start", limited |-> FALSE, status |-> 0, headers |-> NoHeaders, window |-> 0]

\* the X-RateLimit-Remaining header of a response, -1 when it has none
RemainingOf(h) ==
  IF "X-RateLimit-Remaining" \in DOMAIN h THEN h["X-RateLimit-Remaining"] ELSE -1

\* what the handler of that route answers: 'ok' or Boom.badRequest
QStatuses == {200, 400}

\* the requests of one identity on a route limited by the interval bucket 'a'; the
\* limiter always answers
QInit ==
  /\ optEnabled = TRUE
  /\ req = [l |-> "u1", ip |-> "10.0.0.1", excludeGlobal |-> FALSE, excludeRoute |-> FALSE]
  /\ routeOpts = [shape |-> "string", keys |-> {}, buckets |-> <<"a">>, enabled |-> TRUE]
  /\ optDefault = <<>>
  /\ includeHeaders = TRUE
  /\ timeoutEnabled = FALSE
  /\ idThrows = FALSE /\ handled = 0 /\ pureCall = NoCall /\ cache = NoCache /\ written = NoneWritten /\ adapterCall = NoAdapterCall
  /\ pc = "start" /\ info = NoInfo /\ todo = 0 /\ chk = <<>> /\ drp = <<>>
  /\ answer = "none" /\ replies = 0 /\ replies2 = 0 /\ response = NoResponse
  /\ aggCalls = 0 /\ onPassCalls = 0 /\ onLimitCalls = 0 /\ onLimitArgs = {}
  /\ logCalls = 0 /\ dropCalls = <<>> /\ checkCalls = <<>>
  /\ firstErr = "none" /\ firstRet = "none" /\ cancelled = FALSE /\ dup = 0
  /\ qCount = 0
  /\ qWindow = 1
  /\ qReq = [r \in 1..MaxRequests |-> NewRequest]
  /\ qServed = <<>>
  /\ qOverlap = FALSE

\* server.ext(options.event, ...) for request r, with the limiter's answer to its check;
\* the requests are numbered in the order they reach the server
QCheck(r) ==
  /\ qReq[r].pc = "start"
  /\ \A o \in 1..(r - 1) : qReq[o].pc # "start"
  /\ LET opts == resolveRouteOpts(req, routeOpts, optDefault)
         name == opts.buckets[1]
         err == checkLimited(qCount, buckets[name].max)
         data == IF err = "rejected"
                   THEN [count |-> qCount + 1, bucket |-> qWindow] ELSE NoData
         e == rateLimitResolve(err, data, name, "undefined")
     IN /\ opts.enabled
        /\ allCb(Len(opts.buckets), err).call
        /\ qReq' = [qReq EXCEPT ![r] =
                      IF e.reply = "reject"
                        THEN [pc |-> "respond", limited |-> e.limited, status |-> 429,
                              headers |-> addHeaders(NoHeaders, e.headers, includeHeaders),
                              window |-> qWindow]
                        ELSE [pc |-> "handle", limited |-> e.limited, status |-> 0,
                              headers |-> NoHeaders, window |-> qWindow]]
  /\ qOverlap' = (qOverlap \/ \E o \in DOMAIN qReq :
                                 o # r /\ qReq[o].pc \in {"handle", "respond"})
  /\ UNCHANGED <<adapter, pureCall, single, qCount, qWindow, qServed>>

\* the handler's response (or the 429 of phase 1) goes through
\* server.ext('onPreResponse'), with the limiter's answer to the drop, and is sent
QSettle(r, handlerStatus) ==
  /\ qReq[r].pc \in {"handle", "respond"}
  /\ LET q == qReq[r]
         opts == resolveRouteOpts(req, routeOpts, optDefault)
         status == IF q.pc = "handle" THEN handlerStatus ELSE q.status
         inf == [buckets |-> opts.buckets,
                 ids |-> [i \in 1..Len(opts.buckets) |-> identify(opts.buckets[i], req)],
                 limited |-> q.limited, attached |-> TRUE]
         t == settlementTargets(inf, status)
         d == drop(qCount, buckets[t[1].bucket].max, qWindow)
         e == preResponseResolve(d.err, d.data, t[1])
         hs == IF t = <<>> THEN q.headers
               ELSE addHeaders(q.headers, e.headers, includeHeaders)
         w == IF t = <<>> THEN q.window ELSE qWindow
     IN /\ q.pc = "respond" => handlerStatus = 200
        /\ qCount' = IF t = <<>> THEN qCount ELSE d.count
        /\ qReq' = [qReq EXCEPT ![r] = [q EXCEPT !.pc = "sent", !.status = status,
                                                 !.headers = hs, !.window = w]]
        /\ qServed' = Append(qServed, [status |-> status, remaining |-> RemainingOf(hs),
                                       window |-> w])
  /\ UNCHANGED <<adapter, pureCall, single, qWindow, qOverlap>>

\* the interval elapses: the limiter counts in a new window
QTick ==
  /\ qWindow < MaxWindows
  /\ qWindow' = qWindow + 1
  /\ qCount' = 0
  /\ UNCHANGED <<adapter, pureCall, single, qReq, qServed, qOverlap>>

QCheckStep == \E r \in DOMAIN qReq : QCheck(r)

QSettleStep == \E r \in DOMAIN qReq, st \in QStatuses : QSettle(r, st)

QNext ==
  \/ QCheckStep
  \/ QSettleStep
  \/ QTick

SpecQuota == QInit /\ [][QNext]_vars

(* ------------------- id functions that may throw ----------------------- *)
\* requests on routes that name no bucket or one bucket by its name, with or without
\* options.default; the id function of the buckets may throw for the request
IInit ==
  /\ optEnabled \in BOOLEAN
  /\ req \in Requests
  /\ routeOpts \in { c \in RouteConfigs : c.shape \in {"none", "string"} }
  /\ optDefault \in Defaults
  /\ includeHeaders = TRUE
  /\ timeoutEnabled \in BOOLEAN
  /\ idThrows \in BOOLEAN
  /\ handled = 0
  /\ pc = "start" /\ info = NoInfo /\ todo = 0 /\ chk = <<>> /\ drp = <<>>
  /\ answer = "none" /\ replies = 0 /\ replies2 = 0 /\ response = NoResponse
  /\ aggCalls = 0 /\ onPassCalls = 0 /\ onLimitCalls = 0 /\ onLimitArgs = {}
  /\ logCalls = 0 /\ dropCalls = <<>> /\ checkCalls = <<>>
  /\ firstErr = "none" /\ firstRet = "none" /\ cancelled = FALSE /\ dup = 0
  /\ qCount = 0 /\ qWindow = 1 /\ qReq = <<>> /\ qServed = <<>> /\ qOverlap = FALSE
  /\ pureCall = NoCall /\ cache = NoCache /\ written = NoneWritten /\ adapterCall = NoAdapterCall

SpecIdentify == IInit /\ [][Next]_vars

(* ------------------ progress with the deadline timers ----------------- *)
\* requests of a server with options.timeout.enabled, on routes that name no bucket or
\* one bucket by its name, with or without options.default
LInit ==
  /\ optEnabled = TRUE
  /\ req \in Requests
  /\ routeOpts \in { c \in RouteConfigs : c.shape \in {"none", "string"} }
  /\ optDefault \in Defaults
  /\ includeHeaders \in BOOLEAN
  /\ timeoutEnabled = TRUE
  /\ idThrows = FALSE
  /\ handled = 0
  /\ pc = "start" /\ info = NoInfo /\ todo = 0 /\ chk = <<>> /\ drp = <<>>
  /\ answer = "none" /\ replies = 0 /\ replies2 = 0 /\ response = NoResponse
  /\ aggCalls = 0 /\ onPassCalls = 0 /\ onLimitCalls = 0 /\ onLimitArgs = {}
  /\ logCalls = 0 /\ dropCalls = <<>> /\ checkCalls = <<>>
  /\ firstErr = "none" /\ firstRet = "none" /\ cancelled = FALSE /\ dup = 0
  /\ qCount = 0 /\ qWindow = 1 /\ qReq = <<>> /\ qServed = <<>> /\ qOverlap = FALSE
  /\ pureCall = NoCall /\ cache = NoCache /\ written = NoneWritten /\ adapterCall = NoAdapterCall

LNext ==
  \/ ExtEvent
  \/ CheckCallbackStep
  \/ CheckTimeoutStep
  \/ HandlerStep
  \/ OnPreResponse
  \/ DropCallbackStep
  \/ DropTimeoutStep

\* the framework runs its extension points and the handler, and a timer that was set
\* and not cleared fires; the limiter is free never to call back
SpecLive ==
  /\ LInit /\ [][LNext]_vars
  /\ WF_vars(ExtEvent) /\ WF_vars(HandlerStep) /\ WF_vars(OnPreResponse)
  /\ WF_vars(CheckTimeoutStep) /\ WF_vars(DropTimeoutStep)

(* ------------- requests that change while they are handled ------------- *)
\* the value req.query.l has after the handler changed it
ChangedL == "u2"

\* requests on routes that name no bucket or one bucket by its name, with or without
\* options.default
MInit ==
  /\ optEnabled \in BOOLEAN
  /\ req \in Requests
  /\ routeOpts \in { c \in RouteConfigs : c.shape \in {"none", "string"} }
  /\ optDefault \in Defaults
  /\ includeHeaders \in BOOLEAN
  /\ timeoutEnabled \in BOOLEAN
  /\ idThrows = FALSE
  /\ handled = 0
  /\ pc = "start" /\ info = NoInfo /\ todo = 0 /\ chk = <<>> /\ drp = <<>>
  /\ answer = "none" /\ replies = 0 /\ replies2 = 0 /\ response = NoResponse
  /\ aggCalls = 0 /\ onPassCalls = 0 /\ onLimitCalls = 0 /\ onLimitArgs = {}
  /\ logCalls = 0 /\ dropCalls = <<>> /\ checkCalls = <<>>
  /\ firstErr = "none" /\ firstRet = "none" /\ cancelled = FALSE /\ dup = 0
  /\ qCount = 0 /\ qWindow = 1 /\ qReq = <<>> /\ qServed = <<>> /\ qOverlap = FALSE
  /\ pureCall = NoCall /\ cache = NoCache /\ written = NoneWritten /\ adapterCall = NoAdapterCall

\* while the request is with its handler, what the id functions read from it changes
\* (the id function of the tests reads req.query.l)
RequestChanges ==
  /\ pc = "handle"
  /\ req.l # ChangedL
  /\ req' = [req EXCEPT !.l = ChangedL]
  /\ UNCHANGED <<adapter, pureCall, quota, optEnabled, routeOpts, optDefault, includeHeaders,
                 timeoutEnabled, idThrows, handled, pc, info, todo, chk, drp, answer,
                 replies, replies2, response, aggCalls, onPassCalls, onLimitCalls,
                 onLimitArgs, logCalls, dropCalls, checkCalls, firstErr, firstRet,
                 cancelled, dup>>

MNext ==
  \/ Next
  \/ RequestChanges

SpecMutable == MInit /\ [][MNext]_vars

(* --------------------- requests of several identities ------------------ *)
\* the values of req.query.l the requests come with
Identities == {"u1", "u2"}

\* the requests on the route limited by the interval bucket 'a', each with its own
\* query value, numbered in the order they reach the server; the limiter keeps one
\* counter per identity it is called with, all at 0, and always answers
TInit ==
  /\ optEnabled = TRUE
  /\ req = [l |-> "u1", ip |-> "10.0.0.1", excludeGlobal |-> FALSE, excludeRoute |-> FALSE]
  /\ routeOpts = [shape |-> "string", keys |-> {}, buckets |-> <<"a">>, enabled |-> TRUE]
  /\ optDefault = <<>>
  /\ includeHeaders = TRUE
  /\ timeoutEnabled = FALSE
  /\ idThrows = FALSE /\ handled = 0 /\ pureCall = NoCall /\ cache = NoCache /\ written = NoneWritten /\ adapterCall = NoAdapterCall
  /\ pc = "start" /\ info = NoInfo /\ todo = 0 /\ chk = <<>> /\ drp = <<>>
  /\ answer = "none" /\ replies = 0 /\ replies2 = 0 /\ response = NoResponse
  /\ aggCalls = 0 /\ onPassCalls = 0 /\ onLimitCalls = 0 /\ onLimitArgs = {}
  /\ logCalls = 0 /\ dropCalls = <<>> /\ checkCalls = <<>>
  /\ firstErr = "none" /\ firstRet = "none" /\ cancelled = FALSE /\ dup = 0
  /\ qCount = [i \in Identities |-> 0]
  /\ qWindow = 1
  /\ qReq \in [1..MaxRequests ->
                 { [l |-> i, pc |-> "start", limited |-> FALSE, status |-> 0,
                    headers |-> NoHeaders, id |-> "none"] : i \in Identities }]
  /\ qServed = <<>>
  /\ qOverlap = FALSE

\* server.ext(options.event, ...) for request r: the identity is computed from the
\* request and the limiter answers the check from the counter of that identity
TCheck(r) ==
  /\ qReq[r].pc = "start"
  /\ \A o \in 1..(r - 1) : qReq[o].pc # "start"
  /\ LET rq == [req EXCEPT !.l = qReq[r].l]
         opts == resolveRouteOpts(rq, routeOpts, optDefault)
         name == opts.buckets[1]
         id == identify(name, rq)
         err == checkLimited(qCount[id], buckets[name].max)
         data == IF err = "rejected"
                   THEN [count |-> qCount[id] + 1, bucket |-> qWindow] ELSE NoData
         e == rateLimitResolve(err, data, name, "undefined")
     IN /\ opts.enabled
        /\ allCb(Len(opts.buckets), err).call
        /\ qReq' = [qReq EXCEPT ![r] =
                      IF e.reply = "reject"
                        THEN [@ EXCEPT !.pc = "respond", !.limited = e.limited,
                                       !.status = 429, !.id = id,
                                       !.headers = addHeaders(NoHeaders, e.headers,
                                                              includeHeaders)]
                        ELSE [@ EXCEPT !.pc = "handle", !.limited = e.limited, !.id = id]]
  /\ qOverlap' = (qOverlap \/ \E o \in DOMAIN qReq :
                                 o # r /\ qReq[o].pc \in {"handle", "respond"})
  /\ UNCHANGED <<adapter, pureCall, single, qCount, qWindow, qServed>>

\* the handler's 200 (or the 429 of phase 1) goes through server.ext('onPreResponse'):
\* the drop is made with the identity stored in phase 1, the limiter answers it from
\* the counter of that identity, and the response is sent
TSettle(r) ==
  /\ qReq[r].pc \in {"handle", "respond"}
  /\ LET q == qReq[r]
         rq == [req EXCEPT !.l = q.l]
         opts == resolveRouteOpts(rq, routeOpts, optDefault)
         status == IF q.pc = "handle" THEN 200 ELSE q.status
         inf == [buckets |-> opts.buckets,
                 ids |-> [i \in 1..Len(opts.buckets) |-> q.id],
                 limited |-> q.limited, attached |-> TRUE]
         t == settlementTargets(inf, status)
         d == drop(qCount[t[1].id], buckets[t[1].bucket].max, qWindow)
         e == preResponseResolve(d.err, d.data, t[1])
         hs == IF t = <<>> THEN q.headers
               ELSE addHeaders(q.headers, e.headers, includeHeaders)
     IN /\ qCount' = IF t = <<>> THEN qCount ELSE [qCount EXCEPT ![t[1].id] = d.count]
        /\ qReq' = [qReq EXCEPT ![r] = [q EXCEPT !.pc = "sent", !.status = status,
                                                 !.headers = hs]]
        /\ qServed' = Append(qServed, [l |-> q.l, status |-> status,
                                       remaining |-> RemainingOf(hs)])
  /\ UNCHANGED <<adapter, pureCall, single, qWindow, qOverlap>>

TCheckStep == \E r \in DOMAIN qReq : TCheck(r)

TSettleStep == \E r \in DOMAIN qReq : TSettle(r)

TNext ==
  \/ TCheckStep
  \/ TSettleStep

SpecTenants == TInit /\ [][TNext]_vars

(* ------------- a limiter that completes after the deadline ------------- *)
\* requests of a server with options.timeout.enabled, on routes that name one bucket by
\* its name, with or without options.default; the counter the drop goes to is at 0
DInit ==
  /\ optEnabled = TRUE
  /\ req \in Requests
  /\ routeOpts \in { c \in RouteConfigs : c.shape = "string" }
  /\ optDefault \in Defaults
  /\ includeHeaders \in BOOLEAN
  /\ timeoutEnabled = TRUE
  /\ idThrows = FALSE
  /\ handled = 0
  /\ pc = "start" /\ info = NoInfo /\ todo = 0 /\ chk = <<>> /\ drp = <<>>
  /\ answer = "none" /\ replies = 0 /\ replies2 = 0 /\ response = NoResponse
  /\ aggCalls = 0 /\ onPassCalls = 0 /\ onLimitCalls = 0 /\ onLimitArgs = {}
  /\ logCalls = 0 /\ dropCalls = <<>> /\ checkCalls = <<>>
  /\ firstErr = "none" /\ firstRet = "none" /\ cancelled = FALSE /\ dup = 0
  /\ qCount = 0 /\ qWindow = 1 /\ qReq = <<>> /\ qServed = <<>> /\ qOverlap = FALSE
  /\ pureCall = NoCall /\ cache = NoCache /\ written = NoneWritten /\ adapterCall = NoAdapterCall

\* the limiter completes drop j: it counts the request, whether or not the deadline of
\* the call has expired (nothing aborts the call), and calls back the function
\* createTimeout returned
DropCompletes(j) ==
  /\ j \in DOMAIN drp
  /\ ~drp[j].called
  /\ LET d == drop(qCount, buckets[dropCalls[j].name].max, qWindow)
     IN /\ qCount' = d.count
        /\ drp' = [drp EXCEPT ![j] = AfterCallback(@, d.err)]
        /\ IF wrapperPasses(drp[j].timer)
             THEN Phase2Completion(j, d.err, d.data)
             ELSE UNCHANGED <<logCalls, response, replies2, pc>>
  /\ UNCHANGED <<adapter, pureCall, qWindow, qReq, qServed, qOverlap, config, handled, info, todo,
                 chk, answer, replies, aggCalls, onPassCalls, onLimitCalls, onLimitArgs,
                 dropCalls, checkCalls, firstErr, firstRet, cancelled, dup>>

DropCompletesStep == \E j \in DOMAIN drp : DropCompletes(j)

DNext ==
  \/ ExtEvent
  \/ CheckCallbackStep
  \/ CheckTimeoutStep
  \/ HandlerStep
  \/ OnPreResponse
  \/ DropCompletesStep
  \/ DropTimeoutStep

SpecLate == DInit /\ [][DNext]_vars

(* ------------- route objects that name their bucket by a string -------- *)
\* plugins.yaral = { buckets: 'a' } and the like
NamedObjectConfigs ==
  { [shape |-> "objectName", keys |-> {"buckets"}, buckets |-> <<n>>, enabled |-> TRUE] :
      n \in BucketNames }

\* requests on routes configured by an object whose buckets is one name or a list of
\* one name, with or without options.default
NInit ==
  /\ optEnabled \in BOOLEAN
  /\ req \in Requests
  /\ routeOpts \in NamedObjectConfigs
                     \cup { c \in RouteConfigs : c.shape = "object" /\ c.keys = {"buckets"} }
  /\ optDefault \in Defaults
  /\ includeHeaders \in BOOLEAN
  /\ timeoutEnabled \in BOOLEAN
  /\ idThrows = FALSE
  /\ handled = 0
  /\ pc = "start" /\ info = NoInfo /\ todo = 0 /\ chk = <<>> /\ drp = <<>>
  /\ answer = "none" /\ replies = 0 /\ replies2 = 0 /\ response = NoResponse
  /\ aggCalls = 0 /\ onPassCalls = 0 /\ onLimitCalls = 0 /\ onLimitArgs = {}
  /\ logCalls = 0 /\ dropCalls = <<>> /\ checkCalls = <<>>
  /\ firstErr = "none" /\ firstRet = "none" /\ cancelled = FALSE /\ dup = 0
  /\ qCount = 0 /\ qWindow = 1 /\ qReq = <<>> /\ qServed = <<>> /\ qOverlap = FALSE
  /\ pureCall = NoCall /\ cache = NoCache /\ written = NoneWritten /\ adapterCall = NoAdapterCall

SpecNamed == NInit /\ [][Next]_vars

(* --------------------- Bucket methods on their own --------------------- *)
\* the characters of the code patterns tried: the placeholder and some digits
PatternChars == {"x", "0", "2", "4"}

\* code patterns, as the schema admits them (/^[0-9x]{3}$/)
Patterns == [1..3 -> PatternChars]

\* the statuses String() turns into three characters
ThreeDigit == 100..599

\* the results a limiter call may report to Bucket.headers
HeaderData == [count : 0..MaxCount, bucket : 1..2]

\* the arguments of one call of codeMatches, Bucket.matches or Bucket.headers
PureInputs ==
  { [NoCall EXCEPT !.op = "codeMatches", !.status = st, !.pattern = pt] :
      st \in ThreeDigit, pt \in Patterns }
    \cup { [NoCall EXCEPT !.op = "matches", !.status = st, !.name = n] :
             st \in ThreeDigit, n \in DOMAIN buckets }
    \cup { [NoCall EXCEPT !.op = "headers", !.name = n, !.data = dt] :
             n \in DOMAIN buckets, dt \in HeaderData }

\* no request is in flight; the arguments of the call are chosen
BInit ==
  /\ optEnabled = TRUE
  /\ req = [l |-> "u1", ip |-> "10.0.0.1", excludeGlobal |-> FALSE, excludeRoute |-> FALSE]
  /\ routeOpts = [shape |-> "none", keys |-> {}, buckets |-> <<>>, enabled |-> TRUE]
  /\ optDefault = <<>>
  /\ includeHeaders = TRUE
  /\ timeoutEnabled = FALSE
  /\ idThrows = FALSE /\ handled = 0
  /\ pc = "start" /\ info = NoInfo /\ todo = 0 /\ chk = <<>> /\ drp = <<>>
  /\ answer = "none" /\ replies = 0 /\ replies2 = 0 /\ response = NoResponse
  /\ aggCalls = 0 /\ onPassCalls = 0 /\ onLimitCalls = 0 /\ onLimitArgs = {}
  /\ logCalls = 0 /\ dropCalls = <<>> /\ checkCalls = <<>>
  /\ firstErr = "none" /\ firstRet = "none" /\ cancelled = FALSE /\ dup = 0
  /\ qCount = 0 /\ qWindow = 1 /\ qReq = <<>> /\ qServed = <<>> /\ qOverlap = FALSE
  /\ pureCall \in PureInputs /\ cache = NoCache /\ written = NoneWritten /\ adapterCall = NoAdapterCall

\* codeMatches(pattern, String(status))
CallCodeMatches ==
  /\ pureCall.op = "codeMatches"
  /\ ~pureCall.done
  /\ pureCall' = [pureCall EXCEPT
                    !.done = TRUE,
                    !.hit = codeMatches(pureCall.pattern, StringOfStatus(pureCall.status))]
  /\ UNCHANGED <<adapter, single, quota>>

\* bucket.matches(status)
CallMatches ==
  /\ pureCall.op = "matches"
  /\ ~pureCall.done
  /\ pureCall' = [pureCall EXCEPT !.done = TRUE,
                                  !.hit = matches(pureCall.name, pureCall.status)]
  /\ UNCHANGED <<adapter, single, quota>>

\* bucket.headers(data)
CallHeaders ==
  /\ pureCall.op = "headers"
  /\ ~pureCall.done
  /\ pureCall' = [pureCall EXCEPT !.done = TRUE,
                                  !.hdrs = headers(pureCall.name, pureCall.data)]
  /\ UNCHANGED <<adapter, single, quota>>

BNext ==
  \/ CallCodeMatches
  \/ CallMatches
  \/ CallHeaders

SpecBucket == BInit /\ [][BNext]_vars

(* ----------------------------- properties ----------------------------- *)
\* C1: when phase 1 answered the request with the 429 and set limited, onPreResponse
\* issues no limitus.drop for it, whatever the bucket list and the response status
C1_NoDropAfterReject ==
  (answer = "reject" /\ info.limited) => dropCalls = <<>>

\* a rejected request whose 429 matches a bucket of its list went through onPreResponse
C1_Witness ==
  /\ answer = "reject" /\ info.limited /\ pc = "sent"
  /\ response.status = 429
  /\ MatchingIndexes(info.buckets, 429) # {}

\* C2: the aggregate callback of all() runs at most once per request, so the request
\* is continued or rejected at most once and onLimit runs at most once
C2_AggregateOnce ==
  aggCalls <= 1 /\ replies <= 1 /\ onLimitCalls <= 1

\* C3: a request causes at most one limitus.drop call, whatever the interleaving of
\* the callbacks
C3_AtMostOneDrop ==
  Len(dropCalls) <= 1

\* an admitted request with two buckets matching its response was settled
C3_Witness ==
  /\ answer = "continue" /\ pc = "sent"
  /\ Len(dropCalls) = 1
  /\ Cardinality(MatchingIndexes(info.buckets, response.status)) > 1

\* C4: a drop goes to the lowest-index bucket of the resolved list whose codes match
\* the response status, whenever the checks of phase 1 complete; when no bucket
\* matches, no drop is issued and onPreResponse leaves the response headers alone
C4_PrioritySettlement ==
  LET m == MatchingIndexes(info.buckets, response.status)
  IN /\ \A k \in DOMAIN dropCalls :
          /\ m # {}
          /\ dropCalls[k] = [name |-> info.buckets[SetMin(m)], id |-> info.ids[SetMin(m)]]
     /\ (pc = "sent" /\ m = {}) =>
          /\ dropCalls = <<>>
          /\ "X-Rate-Limit" \notin DOMAIN response.headers
          /\ answer = "continue" => response.headers = NoHeaders

\* a response that a later bucket of the list matches, and not the first, was settled
C4_Witness ==
  /\ pc = "sent" /\ Len(dropCalls) = 1 /\ includeHeaders
  /\ Len(info.buckets) > 1
  /\ ~matches(info.buckets[1], response.status)
  /\ "X-Rate-Limit" \in DOMAIN response.headers

\* C5: limited is true exactly when phase 1 answered the request with the 429; it is
\* false in every state of a request that was continued
C5_LimitedIffRejected ==
  info.limited <=> answer = "reject"

\* C6: with the deadline enabled the function createTimeout returns invokes the
\* continuation at most once per call: with the TimeoutError when the timer came
\* first, with the limiter's own result when the limiter came first
C6_WrapperAtMostOnce ==
  timeoutEnabled =>
    \A c \in { chk[i] : i \in DOMAIN chk } \cup { drp[j] : j \in DOMAIN drp } :
      /\ c.cont <= 1
      /\ c.first = "timer" => c.got = "timeout"
      /\ c.first = "limiter" => c.got = c.res

\* a limiter that completed after the deadline, and one that called back again
C6_Witness ==
  /\ timeoutEnabled /\ dup > 0
  /\ \E i \in DOMAIN chk : chk[i].first = "timer" /\ chk[i].called /\ chk[i].cont = 1
  /\ \E j \in DOMAIN drp : drp[j].first = "limiter" /\ drp[j].timer = "null"

\* C7 as stated: once a check has timed out the request is not answered with the 429
\* and onPass is not invoked
C7_TimeoutAdmits ==
  (\E i \in DOMAIN chk : chk[i].got = "timeout") =>
    (answer # "reject" /\ onPassCalls = 0)

\* C7 amended: when the first check of a request to fail is one that timed out, the
\* request is continued and not answered with the 429; and whenever a check has timed
\* out, onPass is not invoked
C7_FirstTimeoutAdmits ==
  /\ firstErr = "timeout" => answer = "continue"
  /\ (\E i \in DOMAIN chk : chk[i].got = "timeout") => onPassCalls = 0

\* a check timed out first, another was rejected afterwards, the response is out
C7_Witness ==
  /\ firstErr = "timeout" /\ pc = "sent"
  /\ \E i \in DOMAIN chk : chk[i].got = "rejected"

\* C8 as stated: once a check has completed with an error that is neither a rejection
\* nor a timeout, the error is logged and the request is continued
C8_ErrorFailsOpen ==
  (\E i \in DOMAIN chk : chk[i].got = "error") =>
    (logCalls >= 1 /\ answer = "continue")

\* C8 amended: when the first check of a request to fail completes with an error that
\* is neither a rejection nor a timeout, the error is logged and the request is
\* continued, not answered with the 429
C8_FirstErrorFailsOpen ==
  firstErr = "error" => (logCalls >= 1 /\ answer = "continue")

\* a check failed with an error first, another was rejected afterwards
C8_Witness ==
  /\ firstErr = "error" /\ pc = "sent"
  /\ \E i \in DOMAIN chk : chk[i].got = "rejected"

\* C9: once a check was rejected and onLimit did not return cancel, the request is
\* answered with the 429, limited is true, onLimit was called with the rejection, and
\* with includeHeaders the 429 carries X-RateLimit-Remaining 0 and the X-RateLimit-Reset
\* of a rejection
C9_RejectedAnswered429 ==
  info.limited =>
    /\ answer = "reject"
    /\ onLimitArgs # {}
    /\ pc \in {"respond", "wait2", "sent"} =>
         /\ response.status = 429
         /\ includeHeaders =>
              \E a \in onLimitArgs :
                response.headers = ("X-RateLimit-Remaining" :> 0)
                                     @@ ("X-RateLimit-Reset" :> a.data.bucket)

\* C10: once onLimit returned cancel for a rejected check, the request is continued,
\* limited stays false and onPreResponse settles the response against the bucket
\* matchBucket selects
C10_CancelContinues ==
  cancelled =>
    /\ answer = "continue"
    /\ ~info.limited
    /\ pc \in {"wait2", "sent"} =>
         LET opts == matchBucket(info, response.status)
         IN dropCalls = IF opts = Undefined THEN <<>>
                        ELSE << [name |-> opts.bucket, id |-> opts.id] >>

\* C11 as stated: once onLimit has vetoed a rejection, onPass has been invoked and the
\* request is continued, as when every check succeeded
C11_VetoIsPass ==
  cancelled => (onPassCalls >= 1 /\ answer = "continue")

\* C11 amended: when the first check of a request to fail is rejected and onLimit
\* vetoes the rejection, the request is continued as when every check succeeded,
\* without the 429 and with limited false at that point, but onPass is not invoked
C11_FirstVetoContinues ==
  (firstErr = "rejected" /\ firstRet = "cancel") =>
    /\ answer = "continue"
    /\ onPassCalls = 0
    /\ aggCalls = 1 => ~info.limited

\* a vetoed rejection was the only failure and the response is out
C11_Witness ==
  /\ firstErr = "rejected" /\ firstRet = "cancel"
  /\ aggCalls = 1 /\ pc = "sent" /\ dropCalls # <<>>

\* C12: onPass is invoked exactly once for a request whose checks have all succeeded
\* and not at all for a request with a rejected check, also when onLimit vetoes;
\* onLimit is invoked once for a request with a rejected check and never for a
\* request whose checks have all succeeded
C12_CallbacksOnce ==
  /\ onPassCalls <= 1
  /\ (info.attached /\ \A i \in DOMAIN chk : chk[i].got = "ok") =>
       (onPassCalls = 1 /\ onLimitCalls = 0)
  /\ (\E i \in DOMAIN chk : chk[i].got = "rejected") =>
       (onPassCalls = 0 /\ onLimitCalls = 1)

\* C13: the pass path (onPass and the continuation it goes with) is taken only after
\* every check of the request has completed successfully; while a check is pending and
\* none has failed, the request is not continued and onPass is not invoked
C13_PassAfterAll ==
  /\ (onPassCalls > 0 \/ firstErr = "ok") =>
       \A i \in DOMAIN chk : chk[i].got = "ok"
  /\ ( /\ info.attached
       /\ \E i \in DOMAIN chk : chk[i].got = "none"
       /\ \A i \in DOMAIN chk : chk[i].got \in {"none", "ok"} ) =>
       (answer = "none" /\ onPassCalls = 0)

\* a request with several checks took the pass path
C13_Witness ==
  /\ Len(chk) > 1 /\ onPassCalls = 1 /\ firstErr = "ok" /\ answer = "continue"
  /\ \A i \in DOMAIN chk : chk[i].got = "ok"

\* C14: of the requests of one identity whose responses match the bucket's codes, at
\* most max are admitted (answered by the handler, not with the 429) within one
\* window, however the requests in flight interleave
C14_AtMostMaxPerWindow ==
  \A w \in 1..MaxWindows :
    Cardinality({ n \in DOMAIN qServed :
                    qServed[n].window = w /\ qServed[n].status = 200 }) <= buckets.a.max

\* C15: for requests that do not overlap, the k-th response of a window is the
\* handler's 200 with X-RateLimit-Remaining max - k while k <= max; every further one
\* in the window is a 429 with X-RateLimit-Remaining 0 that leaves the counter alone;
\* the count starts again in the next window
C15_SequentialQuota ==
  ~qOverlap =>
    /\ \A n \in DOMAIN qServed :
         LET w == qServed[n].window
             k == Cardinality({ m \in 1..n : qServed[m].window = w
                                                /\ qServed[m].status = 200 })
         IN IF qServed[n].status = 200
              THEN k <= buckets.a.max /\ qServed[n].remaining = buckets.a.max - k
              ELSE qServed[n].status = 429 =>
                     /\ qServed[n].remaining = 0
                     /\ k = buckets.a.max
    /\ qCount = Cardinality({ m \in DOMAIN qServed : qServed[m].window = qWindow
                                                       /\ qServed[m].status = 200 })

\* the sequence of the test: remaining 1, remaining 0, a 429, and after the interval
\* remaining 1 again
C15_Witness ==
  /\ ~qOverlap
  /\ Len(qServed) = 4
  /\ qServed[1] = [status |-> 200, remaining |-> 1, window |-> 1]
  /\ qServed[2] = [status |-> 200, remaining |-> 0, window |-> 1]
  /\ qServed[3] = [status |-> 429, remaining |-> 0, window |-> 1]
  /\ qServed[4] = [status |-> 200, remaining |-> 1, window |-> 2]

\* C16: when options.exclude or the route's exclude returns true for a request, no
\* checkLimited and no drop is made for it, no state is attached, it is not rejected
\* and gets no rate-limit header; a route without an exclude of its own is limited
\* unless options.exclude returns true
C16_ExcludedUntouched ==
  /\ (req.excludeGlobal \/ ("exclude" \in routeOpts.keys /\ req.excludeRoute)) =>
       /\ checkCalls = <<>> /\ dropCalls = <<>>
       /\ ~info.attached
       /\ answer # "reject"
       /\ response.headers = NoHeaders
  /\ ( /\ optEnabled /\ pc # "start"
       /\ ~req.excludeGlobal /\ "exclude" \notin routeOpts.keys
       /\ routeOpts.enabled /\ routeOpts.buckets \o optDefault # <<>> ) =>
       (info.attached /\ Len(checkCalls) = Len(routeOpts.buckets \o optDefault))

\* a request the route's exclude takes out, on a route with a bucket, was answered
C16_Witness ==
  /\ optEnabled /\ pc = "sent"
  /\ ~req.excludeGlobal /\ "exclude" \in routeOpts.keys /\ req.excludeRoute
  /\ routeOpts.enabled /\ routeOpts.buckets # <<>>

C18_RouteDisabled ==
  ~routeOpts.enabled =>
    /\ checkCalls = <<>> /\ dropCalls = <<>>
    /\ ~info.attached
    /\ answer # "reject"
    /\ response.headers = NoHeaders

\* a request to a disabled route of a server with a default bucket was answered, no
\* exclude being true
C18_Witness ==
  /\ optEnabled /\ ~routeOpts.enabled /\ optDefault # <<>>
  /\ ~req.excludeGlobal /\ ~req.excludeRoute
  /\ pc = "sent"

\* C19: with options.enabled false no request is checked, dropped, rejected or given
\* rate-limit headers, whatever the route's configuration
C19_PluginDisabled ==
  ~optEnabled =>
    /\ checkCalls = <<>> /\ dropCalls = <<>>
    /\ ~info.attached
    /\ answer = "none" /\ response.status # 429
    /\ response.headers = NoHeaders

\* a request to a route that names a bucket, on a server with the plugin disabled,
\* was answered
C19_Witness ==
  /\ ~optEnabled /\ pc = "sent"
  /\ routeOpts.enabled /\ routeOpts.buckets # <<>>

\* C20: with includeHeaders false no response carries X-Rate-Limit,
\* X-RateLimit-Remaining or X-RateLimit-Reset, neither the 429 nor an admitted one;
\* with either value of includeHeaders the request is rejected exactly when its first
\* failure is a rejection onLimit does not veto, and a drop goes to the bucket
\* matchBucket selects
C20_HeadersOff ==
  /\ ~includeHeaders => response.headers = NoHeaders
  /\ (answer = "reject") <=> (firstErr = "rejected" /\ firstRet # "cancel")
  /\ (answer = "reject" /\ pc \in {"respond", "wait2", "sent"}) => response.status = 429
  /\ \A k \in DOMAIN dropCalls :
       LET opts == matchBucket(info, response.status)
       IN opts # Undefined /\ dropCalls[k] = [name |-> opts.bucket, id |-> opts.id]

\* with includeHeaders false, a drop succeeded and its response is out
C20_Witness ==
  /\ ~includeHeaders /\ pc = "sent"
  /\ \E j \in DOMAIN drp : drp[j].got = "ok"

\* C21: Bucket.matches(status) holds exactly when some pattern of the bucket's codes
\* has, at each of its three positions, the placeholder x or the digit the status has
\* at that position (codeMatches decides this for one pattern); with the default
\* codes 2xx and 3xx exactly the statuses 200..399 match
C21_MatchesByPosition ==
  LET c == pureCall
      digit(k) == CASE k = 1 -> c.status \div 100
                    [] k = 2 -> (c.status \div 10) % 10
                    [] OTHER -> c.status % 10
      fits(pt) == \A k \in 1..3 : pt[k] = "x" \/ pt[k] = DigitChar[digit(k)]
  IN /\ (c.op = "codeMatches" /\ c.done) => (c.hit <=> fits(c.pattern))
     /\ (c.op = "matches" /\ c.done) =>
          /\ c.hit <=> \E i \in DOMAIN buckets[c.name].codes : fits(buckets[c.name].codes[i])
          /\ c.name \in {"a", "d"} => (c.hit <=> c.status \in 200..399)

\* the last status the default codes match has been matched against them
C21_Witness ==
  /\ pureCall.op = "matches" /\ pureCall.done
  /\ pureCall.name = "a" /\ pureCall.status = 399 /\ pureCall.hit

\* C22: Bucket.headers always holds X-Rate-Limit = max; in interval mode it also
\* holds X-RateLimit-Remaining = max(max - count, 0), never negative, and
\* X-RateLimit-Reset from the result; in continuous mode it holds neither of the two
C22_HeadersOfBucket ==
  (pureCall.op = "headers" /\ pureCall.done) =>
    LET b == buckets[pureCall.name]
        h == pureCall.hdrs
        count == pureCall.data.count
    IN /\ "X-Rate-Limit" \in DOMAIN h
       /\ h["X-Rate-Limit"] = b.max
       /\ b.mode = "interval" =>
            /\ DOMAIN h = {"X-Rate-Limit", "X-RateLimit-Remaining", "X-RateLimit-Reset"}
            /\ h["X-RateLimit-Remaining"] = (IF count >= b.max THEN 0 ELSE b.max - count)
            /\ h["X-RateLimit-Remaining"] >= 0
            /\ h["X-RateLimit-Reset"] = pureCall.data.bucket
       /\ b.mode = "continuous" => DOMAIN h = {"X-Rate-Limit"}

\* the headers of an interval bucket were built from a count above its max
C22_Witness ==
  /\ pureCall.op = "headers" /\ pureCall.done
  /\ pureCall.name = "a" /\ pureCall.data.count > buckets["a"].max
  /\ pureCall.hdrs["X-RateLimit-Remaining"] = 0

\* C23: a response whose status matches no bucket of the resolved list consumes no
\* quota: it gets no rate-limit header and leaves the counter where it was, so the
\* counter is the number of matching responses of the window (at most max) and later
\* requests of the identity see the counts they would have seen without it
C23_NonMatchingFree ==
  LET opts == resolveRouteOpts(req, routeOpts, optDefault)
      digits(st) == << st \div 100, (st \div 10) % 10, st % 10 >>
      free(n) == \A i \in DOMAIN opts.buckets :
                   \A pt \in DOMAIN buckets[opts.buckets[i]].codes :
                     \E k \in 1..3 :
                       buckets[opts.buckets[i]].codes[pt][k]
                         \notin {"x", DigitChar[digits(qServed[n].status)[k]]}
      counted == Cardinality({ m \in DOMAIN qServed :
                                 qServed[m].window = qWindow /\ ~free(m) })
  IN /\ \A n \in DOMAIN qServed :
          (free(n) /\ qServed[n].status # 429) => qServed[n].remaining = -1
     /\ qCount = IF counted <= buckets.a.max THEN counted ELSE buckets.a.max

\* the sequence of the test: a 400 without a header, then a 200 with all but one
\* request of the window remaining
C23_Witness ==
  /\ Len(qServed) = 2
  /\ qServed[1] = [status |-> 400, remaining |-> -1, window |-> 1]
  /\ qServed[2] = [status |-> 200, remaining |-> 1, window |-> 1]

\* C24: when the id function of a bucket throws while the extension handler computes
\* the identities, the error does not leave the handler: the request is continued to
\* its handler as admitted
C24_IdentityErrorFailsOpen ==
  ( /\ idThrows /\ registers(optEnabled) /\ pc # "start"
    /\ resolveRouteOpts(req, routeOpts, optDefault).enabled ) =>
      /\ answer = "continue"
      /\ pc = "sent" => response.status = handled

\* C25: the only response the plugin makes itself is the 429 of phase 1, and it makes
\* it only when a check was rejected and onLimit did not cancel; whatever else the
\* limiter calls complete with in either phase, the status sent is the handler's
C25_OnlyThe429 ==
  pc \in {"respond", "wait2", "sent"} =>
    /\ response.status # handled =>
         /\ response.status = 429 /\ answer = "reject"
         /\ firstErr = "rejected" /\ firstRet # "cancel"
         /\ \E i \in DOMAIN chk : chk[i].got = "rejected"
    /\ answer # "reject" => (response.status = handled /\ handled \in Statuses)

\* a check and the drop both failed with an error of the limiter and the handler's
\* 500 was sent
C25_Witness ==
  /\ pc = "sent" /\ response.status = 500 /\ handled = 500
  /\ \E i \in DOMAIN chk : chk[i].got = "error"
  /\ drp # <<>> /\ drp[1].got = "error"

\* C26: once the state is attached, its bucket list and its identity list have the
\* same length, and the i-th identity is the one the id function of the i-th bucket
\* gives for the request
C26_ParallelLists ==
  info.attached =>
    /\ Len(info.buckets) = Len(info.ids)
    /\ info.buckets = resolveRouteOpts(req, routeOpts, optDefault).buckets
    /\ \A i \in DOMAIN info.ids :
         info.ids[i] = IF buckets[info.buckets[i]].id = "l" THEN req.l ELSE req.ip

\* the state of a request with two buckets identified by different id functions, after
\* both phases
C26_Witness ==
  /\ info.attached /\ pc = "sent"
  /\ Len(info.buckets) = 2
  /\ info.ids[1] # info.ids[2]

\* C27: the check that fails first, in the order the checks complete and not in the
\* order of the bucket list, decides phase 1: after a first failure by an error of the
\* limiter or a timeout the request is continued and stays so when another check is
\* rejected later; after a first failure by a rejection that onLimit does not cancel
\* the request is answered 429, also when another check fails with an error later
C27_FirstFailureDecides ==
  /\ firstErr \notin {"none", "ok"} => \E i \in DOMAIN chk : chk[i].got = firstErr
  /\ firstErr \in {"error", "timeout"} =>
       /\ answer = "continue"
       /\ pc \in {"respond", "wait2", "sent"} => response.status = handled
  /\ (firstErr = "rejected" /\ firstRet # "cancel") =>
       /\ answer = "reject"
       /\ response.status = 429

\* the second check of the list failed first, with an error; the first check was
\* rejected afterwards; the handler's response was sent
C27_Witness ==
  /\ Len(chk) = 2 /\ firstErr = "error"
  /\ chk[2].got = "error" /\ chk[1].got = "rejected"
  /\ answer = "continue" /\ pc = "sent" /\ response.status = 200

\* C28: with options.timeout.enabled, every request whose checks were issued is
\* eventually continued or answered 429, and every response that reached onPreResponse
\* is eventually sent, also when the limiter never calls back
C28_TimersEndBothPhases ==
  /\ (pc = "wait1") ~> (answer \in {"continue", "reject"})
  /\ (pc \in {"respond", "wait2"}) ~> (pc = "sent")

\* the limiter called back for no check and not for the drop; the response was sent
C28_Witness ==
  /\ timeoutEnabled /\ pc = "sent"
  /\ chk # <<>> /\ \A i \in DOMAIN chk : ~chk[i].called
  /\ drp # <<>> /\ \A j \in DOMAIN drp : ~drp[j].called

\* C29: when the drop of phase 2 completes with a rejection, the response is sent as
\* the handler made it, with the handler's status and without rate-limit headers,
\* nothing is logged for the rejection (the log holds the errors of the checks only),
\* and the response is continued exactly once
C29_DropRejectedSilent ==
  (drp # <<>> /\ drp[1].got = "rejected") =>
    /\ pc = "sent"
    /\ response = [status |-> handled, headers |-> NoHeaders]
    /\ handled \in Statuses
    /\ logCalls = Cardinality({ i \in DOMAIN chk : chk[i].got = "error" })
    /\ replies2 = 1

\* the drop of a 200 of a server that includes the headers was rejected
C29_Witness ==
  /\ includeHeaders /\ pc = "sent" /\ response.status = 200
  /\ drp # <<>> /\ drp[1].got = "rejected"
  /\ logCalls = 0

\* C30: when the drop of phase 2 completes with an error of the limiter or runs into
\* its deadline, the response is still sent, continued once, with the handler's status
\* and without rate-limit headers; the error is logged, the timeout is not
C30_DropFailureFailsOpen ==
  (drp # <<>> /\ drp[1].got \in {"error", "timeout"}) =>
    /\ pc = "sent"
    /\ response = [status |-> handled, headers |-> NoHeaders]
    /\ handled \in Statuses
    /\ replies2 = 1
    /\ logCalls = Cardinality({ i \in DOMAIN chk : chk[i].got = "error" })
                    + (IF drp[1].got = "error" THEN 1 ELSE 0)

\* the deadline of the drop of a 200 expired on a server that includes the headers,
\* and the limiter called back afterwards
C30_Witness ==
  /\ includeHeaders /\ pc = "sent" /\ response.status = 200
  /\ drp # <<>> /\ drp[1].got = "timeout" /\ drp[1].called

\* C31: the state is attached before a check is issued, and after every outcome of
\* phase 1 that continues the request (all checks passed, an error, a timeout, a veto
\* of onLimit) onPreResponse issues the drop for the first bucket of the list that
\* matches the response
C31_SettlementAfterAdmission ==
  /\ checkCalls # <<>> => info.attached
  /\ ( /\ pc \in {"wait2", "sent"} /\ info.attached /\ answer = "continue"
       /\ MatchingIndexes(info.buckets, response.status) # {} ) =>
       LET k == SetMin(MatchingIndexes(info.buckets, response.status))
       IN dropCalls = << [name |-> info.buckets[k], id |-> info.ids[k]] >>

\* C32: the identities are computed once, when the state is attached: the identity
\* given to each checkLimited and the identity given to the drop are the stored one at
\* the index of the bucket, the drop's at the index of the first bucket that matches the
\* response, also when the id function would give another value for the request as it
\* is at response time
C32_StoredIdentity ==
  /\ info.attached =>
       /\ Len(checkCalls) = Len(info.ids)
       /\ \A i \in DOMAIN info.ids : checkCalls[i] = [name |-> info.buckets[i],
                                                     id |-> info.ids[i]]
  /\ \A j \in DOMAIN dropCalls :
       \E k \in DOMAIN info.buckets :
         /\ \A pt \in 1..(k - 1) : ~matches(info.buckets[pt], response.status)
         /\ matches(info.buckets[k], response.status)
         /\ dropCalls[j] = [name |-> info.buckets[k], id |-> checkCalls[k].id]

\* the handler changed what the id function reads and the drop was made with the
\* identity of phase 1
C32_Witness ==
  /\ pc = "sent" /\ req.l = ChangedL
  /\ dropCalls # <<>> /\ dropCalls[1].id = "u1"
  /\ checkCalls[1].id = "u1"

\* C33: once the state is attached no step changes its bucket list or its identity
\* list, and limited only ever goes from false to true
C33_StateFrozen ==
  [][info.attached =>
       /\ info'.attached
       /\ info'.buckets = info.buckets
       /\ info'.ids = info.ids
       /\ info.limited => info'.limited]_vars

\* limited went from false to true in phase 1, later checks completed and the response
\* went through onPreResponse
C33_Witness ==
  /\ info.attached /\ info.limited /\ pc = "sent"
  /\ Len(info.buckets) = 2 /\ aggCalls = 2

C35_PerIdentity ==
  /\ \A n \in DOMAIN qServed :
       LET own == { m \in 1..n : /\ qServed[m].l = qServed[n].l
                                 /\ qServed[m].status = 200
                                 /\ qServed[m].remaining # -1 }
       IN /\ qServed[n].status = 429 =>
               (Cardinality(own) = buckets.a.max /\ qServed[n].remaining = 0)
          /\ (qServed[n].status = 200 /\ qServed[n].remaining # -1) =>
               qServed[n].remaining = buckets.a.max - Cardinality(own)
  /\ \A i \in Identities :
       qCount[i] = Cardinality({ m \in DOMAIN qServed : /\ qServed[m].l = i
                                                         /\ qServed[m].status = 200
                                                         /\ qServed[m].remaining # -1 })

\* the sequence of the test: the bucket is exhausted for one identity (remaining 1,
\* remaining 0, a 429) and the request of another identity is served with remaining 1
C35_Witness ==
  /\ ~qOverlap
  /\ qServed = << [l |-> "u1", status |-> 200, remaining |-> 1],
                  [l |-> "u1", status |-> 200, remaining |-> 0],
                  [l |-> "u1", status |-> 429, remaining |-> 0],
                  [l |-> "u2", status |-> 200, remaining |-> 1] >>

\* C36: a drop whose deadline expired is not aborted: when the limiter completes it the
\* counter is incremented all the same, and the completion is not passed on: the
\* response, continued once at the deadline with the handler's status and without
\* rate-limit headers, is not touched again
C36_LateDropStillCounts ==
  \A j \in DOMAIN drp :
    /\ qCount = (IF drp[j].called THEN 1 ELSE 0)
    /\ drp[j].first = "timer" =>
         /\ pc = "sent"
         /\ drp[j].got = "timeout" /\ drp[j].cont = 1
         /\ response = [status |-> handled, headers |-> NoHeaders]
         /\ replies2 = 1
         /\ logCalls = Cardinality({ i \in DOMAIN chk : chk[i].got = "error" })

\* the deadline of the drop expired, the response was sent, and the limiter completed
\* the drop afterwards
C36_Witness ==
  /\ drp # <<>> /\ drp[1].first = "timer" /\ drp[1].called
  /\ qCount = 1 /\ pc = "sent" /\ includeHeaders

\* C37: server.log(['error', 'ratelimit']) runs once for each completion of a check or
\* of the drop that is passed on with an error that is neither a timeout nor a
\* rejection, and for no other completion: rejections and timeouts are never logged
C37_LogsInfrastructureOnly ==
  logCalls = Cardinality({ i \in DOMAIN chk : chk[i].got = "error" })
               + Cardinality({ j \in DOMAIN drp : drp[j].got = "error" })

\* a check timed out, another failed with an error, the drop was rejected: one log
C37_Witness ==
  /\ pc = "sent" /\ logCalls = 1
  /\ \E i \in DOMAIN chk : chk[i].got = "timeout"
  /\ \E i \in DOMAIN chk : chk[i].got = "error"
  /\ drp # <<>> /\ drp[1].got = "rejected"

\* C38: with options.timeout.enabled false, createTimeout starts no timer and returns
\* the callback itself: no call is ever completed with a timeout, and the completion
\* of the limiter reaches the callback as it is
C38_NoTimerWhenDisabled ==
  ~timeoutEnabled =>
    \A c \in { chk[i] : i \in DOMAIN chk } \cup { drp[j] : j \in DOMAIN drp } :
      /\ c.timer = "off"
      /\ c.first # "timer" /\ c.got # "timeout"
      /\ c.called => (c.cont = 1 /\ c.got = c.res /\ c.first = "limiter")
      /\ ~c.called => (c.cont = 0 /\ c.got = "none")

\* without timers, a check and the drop completed and reached their callbacks
C38_Witness ==
  /\ ~timeoutEnabled /\ pc = "sent"
  /\ chk # <<>> /\ chk[1].called /\ chk[1].cont = 1
  /\ drp # <<>> /\ drp[1].called /\ drp[1].cont = 1 /\ drp[1].got = "ok"

\* C39: a route object whose buckets is one bucket name resolves to the list of that
\* name followed by options.default, and the request is limited by that list: its
\* state is attached with the list and one check is issued per bucket of it
C39_NamedBucketResolves ==
  routeOpts.shape = "objectName" =>
    LET o == resolveRouteOpts(req, routeOpts, optDefault)
    IN /\ ~o.text
       /\ o.buckets = routeOpts.buckets \o optDefault
       /\ (registers(optEnabled) /\ pc # "start" /\ ~req.excludeGlobal) =>
            /\ answer # "throw"
            /\ info.attached
            /\ info.buckets = routeOpts.buckets \o optDefault
            /\ Len(checkCalls) = Len(info.buckets)

(* --------------------- the limiter's storage adapter -------------------- *)
transformKey_otherSegment(key) == [segment |-> "other", id |-> String(key)]
transformKey_oneId(key) == [segment |-> "yaral", id |-> "1"]
\* transformKey(key)
transformKey(key) == [segment |-> "yaral", id |-> String(key)]

\* the storage is empty of the limiter's data and may hold unrelated data under
\* the same ids in another segment
AInit ==
  /\ cache \in { c \in [CacheKeys -> {Null} \cup {Envelope(v) : v \in AdapterValues}] :
                   \A k \in CacheKeys : k.segment = "yaral" => c[k] = Null }
  /\ written = NoneWritten
  /\ adapterCall = NoAdapterCall
  /\ optEnabled = TRUE
  /\ req = [l |-> "u1", excludeGlobal |-> FALSE, excludeRoute |-> FALSE]
  /\ routeOpts = [shape |-> "none", keys |-> {}, buckets |-> <<>>, enabled |-> TRUE]
  /\ optDefault = <<>>
  /\ includeHeaders = TRUE
  /\ timeoutEnabled = FALSE
  /\ idThrows = FALSE /\ handled = 0
  /\ pc = "start" /\ info = NoInfo /\ todo = 0 /\ chk = <<>> /\ drp = <<>>
  /\ answer = "none" /\ replies = 0 /\ replies2 = 0 /\ response = NoResponse
  /\ aggCalls = 0 /\ onPassCalls = 0 /\ onLimitCalls = 0 /\ onLimitArgs = {}
  /\ logCalls = 0 /\ dropCalls = <<>> /\ checkCalls = <<>>
  /\ firstErr = "none" /\ firstRet = "none" /\ cancelled = FALSE /\ dup = 0
  /\ qCount = 0 /\ qWindow = 1 /\ qReq = <<>> /\ qServed = <<>> /\ qOverlap = FALSE
  /\ pureCall = NoCall

\* set(key, value, expiration, callback): the storage keeps the value under the
\* transformed key and calls back, or fails and calls back with its error
set(key, value, fails) ==
  LET k == transformKey(key)
  IN /\ cache' = IF fails THEN cache ELSE [cache EXCEPT ![k] = Envelope(value)]
     /\ written' = IF fails THEN written
                   ELSE [o \in Keys |-> IF String(o) = String(key) THEN Envelope(value)
                                        ELSE written[o]]
     /\ adapterCall' = [op |-> "set", key |-> key, cacheKey |-> k, failed |-> fails,
                        err |-> IF fails THEN "error" ELSE "none", value |-> Null,
                        last |-> written[key]]
     /\ UNCHANGED <<pureCall, single, quota>>

\* get(key, callback): callback(err, item && item.item) with what the storage
\* answers for the transformed key
get(key, fails) ==
  LET k == transformKey(key)
      item == IF fails THEN Null ELSE cache[k]
  IN /\ adapterCall' = [op |-> "get", key |-> key, cacheKey |-> k, failed |-> fails,
                        err |-> IF fails THEN "error" ELSE "none",
                        value |-> IF item.present THEN Envelope(item.item) ELSE Null,
                        last |-> written[key]]
     /\ UNCHANGED <<cache, written, pureCall, single, quota>>

\* the expiration given to set has passed: the storage drops what it held
Expire(id) ==
  LET k == [segment |-> "yaral", id |-> id]
  IN /\ cache[k].present
     /\ cache' = [cache EXCEPT ![k] = Null]
     /\ written' = [o \in Keys |-> IF String(o) = id THEN Null ELSE written[o]]
     /\ UNCHANGED <<adapterCall, pureCall, single, quota>>

SetStep == \E key \in Keys, value \in AdapterValues, fails \in BOOLEAN : set(key, value, fails)
GetStep == \E key \in Keys, fails \in BOOLEAN : get(key, fails)
ExpireStep == \E id \in {"1", "a:u1"} : Expire(id)

ANext == SetStep \/ GetStep \/ ExpireStep

SpecAdapter == AInit /\ [][ANext]_vars

\* C40: get and set both address the storage by {segment: 'yaral', id: String(key)};
\* a get the storage answers calls back without error with the value last set under
\* the key and still stored, whatever unrelated data the storage holds, and with an
\* absent value when nothing is stored under the key
C40_AdapterRoundTrip ==
  /\ adapterCall.op \in {"get", "set"} =>
       adapterCall.cacheKey = [segment |-> "yaral", id |-> String(adapterCall.key)]
  /\ (adapterCall.op = "get" /\ ~adapterCall.failed) =>
       /\ adapterCall.err = "none"
       /\ adapterCall.value = adapterCall.last

\* a get of a number key returned the value set under it while the storage held a
\* different value under the same id in the other segment
C40_Witness ==
  /\ adapterCall.op = "get" /\ ~adapterCall.failed
  /\ adapterCall.key.kind = "number"
  /\ adapterCall.value.present
  /\ cache[[segment |-> "other", id |-> "1"]].present
  /\ cache[[segment |-> "other", id |-> "1"]] # adapterCall.value

====
